---- MODULE Spec2Model ----
(***************************************************************************)
(* Model of the timetable generation pass of                               *)
(* backend/scheduler/timetable_generator.py (generate_timetable) over a    *)
(* catalog held in the Django tables of backend/scheduler/models.py.       *)
(*                                                                         *)
(* Entities are identified by their position in the table (the order the   *)
(* querysets return them in); a slot id is the position of the slot in     *)
(* TimetableSlot.objects.all().order_by('day', 'period_number').           *)
(***************************************************************************)
EXTENDS Integers, Sequences, FiniteSets, TLC

\* ------------------------------------------------------------------ bounds
MaxDays == 2
MaxPeriods == 3
MaxSections == 2
MaxHours == 2
ScenarioDays == 3
ScenarioPeriods == 6
ScenarioHours == 3
FairDays == 1
LongLabHours == 5
RankedPeriods == 10

\* ------------------------------------------------------- program constants
\* faculty.max_hours_per_week is validated to be at least this (Faculty.clean)
MinFacultyHours == 1
\* the default of faculty.max_hours_per_week
DefaultMaxHours == 18
\* theory subjects prefer non-lab rooms: priority_boost of a theory demand
TheoryBoost == 5
\* consecutive_limit of a lab demand and of a theory demand
LabConsecutiveLimit == 3
TheoryConsecutiveLimit == 2
\* max_sessions_per_day is never above this
DayCapCeiling == 4

VARIABLES
    settings,            \* InstitutionSettings.objects.first(), or NoSettings
    slots,               \* TimetableSlot rows ordered by (day, period_number)
    sections,            \* Section rows
    subjects,            \* Subject rows
    faculties,           \* Faculty rows
    allocations,         \* FacultySubjectAllocation rows
    rooms,               \* Room rows
    semesters,           \* Semester rows
    stored,              \* ScheduledSession rows
    previous,            \* the ScheduledSession rows when the pass was called
    pc,                  \* position of the pass
    outcome,             \* "none", the ValueError raised, or "success"
    faculty_limits,
    faculty_schedule,
    faculty_hours_used,
    room_schedule,
    section_schedule,
    section_day_count,
    subject_day_count,
    result,
    all_sessions,
    session_index,       \* position of the main loop in all_sessions
    scheduled_count,
    skipped_count,
    skip_warnings,       \* warnings/errors logged for a skipped allocation or demand
    placed_by,           \* how each row of result was accepted
    request,             \* the request generate_from_academic_setup is serving
    first_run,           \* what an earlier pass on the same catalog returned
    probe                \* the period ranking of lines 233-240 under inspection

catalog == <<settings, slots, sections, subjects, faculties, allocations, rooms, semesters>>
caller == <<request, first_run, probe>>
tracking == <<faculty_schedule, faculty_hours_used, room_schedule, section_schedule,
              section_day_count, subject_day_count>>
vars == <<catalog, caller, stored, previous, pc, outcome, faculty_limits, tracking, result,
          all_sessions, session_index, scheduled_count, skipped_count, skip_warnings,
          placed_by>>

\* ----------------------------------------------------------------- helpers
\* InstitutionSettings.objects.first() of an empty table
NoSettings == [working_days |-> 0, periods_per_day |-> 0]

Min(a, b) == IF a <= b THEN a ELSE b
Max(a, b) == IF a >= b THEN a ELSE b
Abs(a) == IF a >= 0 THEN a ELSE 0 - a

RECURSIVE SumOver(_, _)
\* the sum of f[x] over the finite set S
SumOver(S, f) ==
    IF S = {} THEN 0
    ELSE LET x == CHOOSE y \in S : TRUE IN f[x] + SumOver(S \ {x}, f)

\* a fraction n/d with d > 0, compared exactly
RatLess(a, b) == a[1] * b[2] < b[1] * a[2]
RatEq(a, b) == a[1] * b[2] = b[1] * a[2]

RECURSIVE StableSort(_, _)
\* list.sort(key=...) : ascending by key[x], equal keys keep their order
StableSort(seq, key) ==
    IF seq = <<>> THEN <<>>
    ELSE LET h == Head(seq)
             rest == StableSort(Tail(seq), key)
             n == Cardinality({i \in 1..Len(rest) : key[rest[i]] < key[h]})
         IN SubSeq(rest, 1, n) \o <<h>> \o SubSeq(rest, n + 1, Len(rest))

RECURSIVE AscendingOrders(_, _)
\* every listing of S that is ascending for the strict weak order less:
\* the results a sort can produce when ties are broken by a random key
AscendingOrders(S, less) ==
    IF S = {} THEN {<<>>}
    ELSE LET mins == {i \in S : \A j \in S : ~less[<<j, i>>]}
         IN UNION {{<<i>> \o t : t \in AscendingOrders(S \ {i}, less)} : i \in mins}

RECURSIVE FirstFrom(_, _, _)
\* the first index i >= k of seq with seq[i] in good, or 0 when there is none
FirstFrom(seq, good, k) ==
    IF k > Len(seq) THEN 0
    ELSE IF seq[k] \in good THEN k
    ELSE FirstFrom(seq, good, k + 1)

\* the first index of seq whose element is in good, or 0 when there is none
FirstIndex(seq, good) == FirstFrom(seq, good, 1)

\* ----------------------------------------------------------------- catalog
Grid(days, periods) ==
    [i \in 1..(days * periods) |->
        [day |-> ((i - 1) \div periods) + 1, period_number |-> ((i - 1) % periods) + 1]]

Days == 1..settings.working_days
SectionIds == 1..Len(sections)
SubjectIds == 1..Len(subjects)
FacultyIds == 1..Len(faculties)
RoomIds == 1..Len(rooms)
SlotIds == 1..Len(slots)

\* a ScheduledSession row left by an earlier pass
OldSession ==
    [section |-> 1, subject |-> 1, faculty |-> 1, room |-> 1, slot |-> 1,
     is_lab_session |-> FALSE]

\* -------------------------------------------------- Demand Builder (44-137)
\* FacultyLimit without the faculty's own weekly maximum
FacultyLimit_GridOnly(f) ==
    Max(1, settings.working_days * settings.periods_per_day)

\* faculty_limits[faculty.id], lines 48-50
FacultyLimit(f) ==
    Max(1, Min(faculties[f].max_hours_per_week,
               settings.working_days * settings.periods_per_day))

\* Room.objects.filter(is_lab=lab), as the list of room ids
RoomsOfType(lab) ==
    SelectSeq([i \in 1..Len(rooms) |-> i], LAMBDA r : rooms[r].is_lab = lab)

\* AvailableRooms without the fall back to the rooms of the other type
AvailableRooms_NoFallback(subj) ==
    RoomsOfType(subjects[subj].lab_required)

\* AvailableRooms with every room of the catalog, whatever its type
AvailableRooms_AnyRoom(subj) == [i \in 1..Len(rooms) |-> i]

\* available_rooms of a subject, lines 101-111
AvailableRooms(subj) ==
    IF subjects[subj].lab_required
    THEN IF RoomsOfType(TRUE) # <<>> THEN RoomsOfType(TRUE) ELSE RoomsOfType(FALSE)
    ELSE IF RoomsOfType(FALSE) # <<>> THEN RoomsOfType(FALSE)
         ELSE [i \in 1..Len(rooms) |-> i]

\* the session scheduling requests of one allocation, lines 119-137
SessionRequests(sec, subj, a, needed, load, limit) ==
    [n \in 1..needed |->
        [section |-> sec,
         subject |-> subj,
         faculty |-> allocations[a].faculty,
         available_rooms |-> AvailableRooms(subj),
         session_num |-> n - 1,
         is_lab |-> subjects[subj].lab_required,
         priority |-> <<((n - 1) + (IF subjects[subj].lab_required THEN 0 ELSE TheoryBoost))
                          * limit + 2 * load, limit>>,
         faculty_load |-> load,
         allocation_hours |-> allocations[a].hours_per_week,
         allocation_id |-> a]]

\* BuildAllocation without the cap of line 95 by the remaining capacity
BuildAllocation_Uncapped(acc, sec, subj, a) ==
    LET f == allocations[a].faculty
        hours == allocations[a].hours_per_week
        limit == faculty_limits[f]
        remaining == limit - acc.sessions_by_faculty[f]
        needed == Max(1, Min(hours, settings.periods_per_day))
        load == acc.sessions_by_faculty[f] + needed
    IN  IF hours <= 0
        THEN [acc EXCEPT !.skip_warnings = @ + 1]
        ELSE IF remaining <= 0
        THEN [acc EXCEPT !.skip_warnings = @ + 1]
        ELSE IF AvailableRooms(subj) = <<>>
        THEN [acc EXCEPT !.sessions_by_faculty[f] = load, !.skip_warnings = @ + 1]
        ELSE [acc EXCEPT !.sessions_by_faculty[f] = load,
                         !.all_sessions = @ \o SessionRequests(sec, subj, a, needed, load, limit)]

\* BuildAllocation without the update of sessions_by_faculty of line 98
BuildAllocation_NoCommitment(acc, sec, subj, a) ==
    LET f == allocations[a].faculty
        hours == allocations[a].hours_per_week
        limit == faculty_limits[f]
        remaining == limit - acc.sessions_by_faculty[f]
        needed == Max(1, Min(Min(hours, settings.periods_per_day), remaining))
        load == acc.sessions_by_faculty[f] + needed
    IN  IF hours <= 0
        THEN [acc EXCEPT !.skip_warnings = @ + 1]
        ELSE IF remaining <= 0
        THEN [acc EXCEPT !.skip_warnings = @ + 1]
        ELSE IF AvailableRooms(subj) = <<>>
        THEN [acc EXCEPT !.skip_warnings = @ + 1]
        ELSE [acc EXCEPT !.all_sessions = @ \o SessionRequests(sec, subj, a, needed, load, limit)]

\* one iteration of "for allocation in allocations", lines 75-137; acc carries
\* sessions_by_faculty, all_sessions and the number of skip warnings logged
BuildAllocation(acc, sec, subj, a) ==
    LET f == allocations[a].faculty
        hours == allocations[a].hours_per_week
        limit == faculty_limits[f]
        remaining == limit - acc.sessions_by_faculty[f]
        needed == Max(1, Min(Min(hours, settings.periods_per_day), remaining))
        load == acc.sessions_by_faculty[f] + needed
    IN  IF hours <= 0
        THEN [acc EXCEPT !.skip_warnings = @ + 1]
        ELSE IF remaining <= 0
        THEN [acc EXCEPT !.skip_warnings = @ + 1]
        ELSE IF AvailableRooms(subj) = <<>>
        THEN [acc EXCEPT !.sessions_by_faculty[f] = load, !.skip_warnings = @ + 1]
        ELSE [acc EXCEPT !.sessions_by_faculty[f] = load,
                         !.all_sessions = @ \o SessionRequests(sec, subj, a, needed, load, limit)]

RECURSIVE BuildFrom(_, _)
\* the nested loops of lines 61-137 from the k-th (section, subject, allocation)
\* triple on, in the order the loops visit them
BuildFrom(k, acc) ==
    LET nSub == Len(subjects)
        nAll == Len(allocations)
        sec == (k \div (nSub * nAll)) + 1
        subj == ((k \div nAll) % nSub) + 1
        a == (k % nAll) + 1
    IN  IF nSub * nAll = 0 \/ k >= Len(sections) * nSub * nAll THEN acc
        ELSE IF subjects[subj].semester = sections[sec].semester
                /\ allocations[a].subject = subj
        THEN BuildFrom(k + 1, BuildAllocation(acc, sec, subj, a))
        ELSE BuildFrom(k + 1, acc)

BuildResult ==
    BuildFrom(0, [sessions_by_faculty |-> [f \in FacultyIds |-> 0],
                  all_sessions |-> <<>>,
                  skip_warnings |-> 0])

\* ---------------------------------------------------- Priority Sorter (160-171)
HoursUsed(f) == IF f \in DOMAIN faculty_hours_used THEN faculty_hours_used[f] ELSE 0

\* session_sort_key without its random last component
session_sort_key(session) ==
    LET faculty_current_load == HoursUsed(session.faculty)
        faculty_total_limit == faculty_limits[session.faculty]
        section_current_load == Cardinality(section_schedule[session.section])
    IN  [faculty_load_ratio |-> IF faculty_total_limit > 0
                                THEN <<faculty_current_load, faculty_total_limit>>
                                ELSE <<1, 1>>,
         section_current_load |-> section_current_load,
         priority |-> session.priority]

\* tuple comparison of two sort keys, the random component left out
KeyLess(k1, k2) ==
    \/ RatLess(k1.faculty_load_ratio, k2.faculty_load_ratio)
    \/ /\ RatEq(k1.faculty_load_ratio, k2.faculty_load_ratio)
       /\ \/ k1.section_current_load < k2.section_current_load
          \/ /\ k1.section_current_load = k2.section_current_load
             /\ RatLess(k1.priority, k2.priority)

\* the lists all_sessions.sort(key=session_sort_key) can leave: random.random()
\* orders the sessions whose other key components are equal
SortedSessions(unsorted) ==
    LET idx == 1..Len(unsorted)
        less == [p \in idx \X idx |->
                    KeyLess(session_sort_key(unsorted[p[1]]), session_sort_key(unsorted[p[2]]))]
    IN  {[i \in idx |-> unsorted[o[i]]] : o \in AscendingOrders(idx, less)}

\* ------------------------------------------------------ Slot Selector (201-310)
\* day_total_sessions of line 210: a section counts with all its sessions as
\* soon as one of them is on that day
DayTotalSessions(day) ==
    SumOver(SectionIds,
            [sec \in SectionIds |->
                IF \E s \in section_schedule[sec] : slots[s].day = day
                THEN Cardinality(section_schedule[sec]) ELSE 0])

\* the score of a day without its random.uniform(0, 0.3) term, lines 216-221
DayScore(session, day) ==
    subject_day_count[session.section][session.subject][day] * 10
    + section_day_count[session.section][day] * 3
    + DayTotalSessions(day)

\* the orders day_scores.sort() can leave: the jitter is below 1 and orders
\* the days of equal integer score
DayOrders(session) ==
    AscendingOrders(Days, [p \in Days \X Days |->
                              DayScore(session, p[1]) < DayScore(session, p[2])])

\* slots_by_day[day], lines 174-176
SlotsByDay(day) ==
    SelectSeq([i \in 1..Len(slots) |-> i], LAMBDA s : slots[s].day = day)

\* slot_attempts of a day after the sort of line 238
SlotAttempts(day) ==
    StableSort(SlotsByDay(day),
               [s \in SlotIds |->
                   Abs(slots[s].period_number - (settings.periods_per_day \div 2))])

\* RoomFound without the test that the room is free at the slot
RoomFound_AnySlot(session, slot) ==
    LET room_usage == StableSort(session.available_rooms,
                                 [r \in RoomIds |-> Cardinality(room_schedule[r])])
    IN  IF room_usage = <<>> THEN 0 ELSE room_usage[1]

\* room_found of lines 248-256: the first room free at the slot, the rooms
\* taken in ascending order of their usage count
RoomFound(session, slot) ==
    LET room_usage == StableSort(session.available_rooms,
                                 [r \in RoomIds |-> Cardinality(room_schedule[r])])
        i == FirstIndex(room_usage, {r \in RoomIds : slot \notin room_schedule[r]})
    IN  IF i = 0 THEN 0 ELSE room_usage[i]

ConsecutiveLimit(session) ==
    IF session.is_lab THEN LabConsecutiveLimit ELSE TheoryConsecutiveLimit

\* check_slot of line 271: the first slot of that day and period, or 0
CheckSlot(day, period) ==
    FirstIndex([i \in 1..Len(slots) |-> i],
               {s \in SlotIds : slots[s].day = day /\ slots[s].period_number = period})

\* the slots for which
\* ScheduledSession.objects.filter(section=, subject=, slot=).exists()
SessionSlots(sec, subj) ==
    {stored[i].slot : i \in {k \in 1..Len(stored) :
                                stored[k].section = sec /\ stored[k].subject = subj}}

\* consecutive_count of lines 263-274
ConsecutiveCount(session, slot) ==
    LET p == slots[slot].period_number
        lim == ConsecutiveLimit(session)
        lo == Max(1, p - lim)
        hi == Min(settings.periods_per_day + 1, p + lim + 1) - 1
        existing == SessionSlots(session.section, session.subject)
    IN  IF existing = {} THEN 0
        ELSE Cardinality({cp \in lo..hi :
                /\ cp # p
                /\ CheckSlot(slots[slot].day, cp) \in existing})

\* max_sessions_per_day of line 300
MaxSessionsPerDay == Min(DayCapCeiling, (settings.periods_per_day \div 2) + 1)

\* SlotSuitable without the faculty conflict test of line 242
SlotSuitable_NoFacultyCheck(session, slot) ==
    /\ slot \notin section_schedule[session.section]
    /\ RoomFound(session, slot) # 0
    /\ ConsecutiveCount(session, slot) < ConsecutiveLimit(session)
    /\ section_day_count[session.section][slots[slot].day] < MaxSessionsPerDay

\* SlotSuitable without the section conflict test of line 244
SlotSuitable_NoSectionCheck(session, slot) ==
    /\ slot \notin faculty_schedule[session.faculty]
    /\ RoomFound(session, slot) # 0
    /\ ConsecutiveCount(session, slot) < ConsecutiveLimit(session)
    /\ section_day_count[session.section][slots[slot].day] < MaxSessionsPerDay

\* SlotSuitable without the consecutive-session test of line 276
SlotSuitable_NoConsecutiveCheck(session, slot) ==
    /\ slot \notin faculty_schedule[session.faculty]
    /\ slot \notin section_schedule[session.section]
    /\ RoomFound(session, slot) # 0
    /\ section_day_count[session.section][slots[slot].day] < MaxSessionsPerDay

\* SlotSuitable without the per-day test of line 301
SlotSuitable_NoDayCap(session, slot) ==
    /\ slot \notin faculty_schedule[session.faculty]
    /\ slot \notin section_schedule[session.section]
    /\ RoomFound(session, slot) # 0
    /\ ConsecutiveCount(session, slot) < ConsecutiveLimit(session)

\* the filters of lines 242-302 on one slot of the search
SlotSuitable(session, slot) ==
    /\ slot \notin faculty_schedule[session.faculty]
    /\ slot \notin section_schedule[session.section]
    /\ RoomFound(session, slot) # 0
    /\ ConsecutiveCount(session, slot) < ConsecutiveLimit(session)
    /\ section_day_count[session.section][slots[slot].day] < MaxSessionsPerDay

RECURSIVE SearchOrder(_)
\* the slots in the order lines 229-240 visit them for a given order of days
SearchOrder(day_order) ==
    IF day_order = <<>> THEN <<>>
    ELSE SlotAttempts(Head(day_order)) \o SearchOrder(Tail(day_order))

\* SelectSlot taking the last slot of the search that passes the filters
SelectSlot_LastSuitable(session, day_order) ==
    LET search == SearchOrder(day_order)
        good == {i \in 1..Len(search) : SlotSuitable(session, search[i])}
        i == IF good = {} THEN 0 ELSE CHOOSE k \in good : \A l \in good : l <= k
    IN  IF i = 0 THEN [slot |-> 0, room |-> 0]
        ELSE [slot |-> search[i], room |-> RoomFound(session, search[i])]

\* best_slot, best_room after the search of lines 229-310 (0: none)
SelectSlot(session, day_order) ==
    LET search == SearchOrder(day_order)
        i == FirstIndex(search, {s \in SlotIds : SlotSuitable(session, s)})
    IN  IF i = 0 THEN [slot |-> 0, room |-> 0]
        ELSE [slot |-> search[i], room |-> RoomFound(session, search[i])]

\* -------------------------------------------------- Fallback Resolver (312-327)
\* the first room of available_rooms free at the slot, or 0
FallbackRoom(session, slot) ==
    LET i == FirstIndex(session.available_rooms,
                        {r \in RoomIds : slot \notin room_schedule[r]})
    IN  IF i = 0 THEN 0 ELSE session.available_rooms[i]

\* FallbackSuitable with the per-day cap of the Slot Selector left in place
FallbackSuitable_StrictCap(session, slot) ==
    /\ slot \notin faculty_schedule[session.faculty]
    /\ slot \notin section_schedule[session.section]
    /\ FallbackRoom(session, slot) # 0
    /\ section_day_count[session.section][slots[slot].day] < MaxSessionsPerDay

\* FallbackSuitable without the section conflict test of line 317
FallbackSuitable_NoSectionCheck(session, slot) ==
    /\ slot \notin faculty_schedule[session.faculty]
    /\ FallbackRoom(session, slot) # 0
    /\ section_day_count[session.section][slots[slot].day] < settings.periods_per_day

\* the test of lines 316-322 on one slot of the fallback scan
FallbackSuitable(session, slot) ==
    /\ slot \notin faculty_schedule[session.faculty]
    /\ slot \notin section_schedule[session.section]
    /\ FallbackRoom(session, slot) # 0
    /\ section_day_count[session.section][slots[slot].day] < settings.periods_per_day

FallbackSlot(session) ==
    LET i == FirstIndex([k \in 1..Len(slots) |-> k],
                        {s \in SlotIds : FallbackSuitable(session, s)})
    IN  IF i = 0 THEN [slot |-> 0, room |-> 0]
        ELSE [slot |-> i, room |-> FallbackRoom(session, i)]

\* ------------------------------------------------------------------ states
\* the Semester table of the catalogs: one semester
OneSemester == <<[id |-> 1, number |-> 1]>>

\* no request is being served and no earlier pass is recorded
NoRequest == [phase |-> "none", status |-> 0, data |-> <<>>, before |-> <<>>]

\* no period ranking is under inspection
NoProbe == [day |-> 0, slot_attempts |-> <<>>, tried |-> 0]

NoCaller ==
    /\ request = NoRequest
    /\ first_run = <<>>
    /\ probe = NoProbe

\* the tracking structures of lines 32-41, empty
EmptyTracking ==
    /\ faculty_schedule = [f \in FacultyIds |-> {}]
    /\ faculty_hours_used = <<>>
    /\ room_schedule = [r \in RoomIds |-> {}]
    /\ section_schedule = [s \in SectionIds |-> {}]
    /\ section_day_count = [s \in SectionIds |-> [d \in Days |-> 0]]
    /\ subject_day_count = [s \in SectionIds |-> [j \in SubjectIds |-> [d \in Days |-> 0]]]

\* the room tables of the complete catalogs: one room of either type, one of
\* each, two of the same type
RoomCatalogs ==
    LET T == [is_lab |-> FALSE]
        L == [is_lab |-> TRUE]
    IN  {<<T>>, <<L>>, <<L, T>>, <<T, T>>}

\* the allocation tables of the complete catalogs: subject 1 taught by faculty 1
\* alone, or followed by one hour of subject 1 or of subject 2 given by
\* faculty 1 or 2, or by MaxHours hours of subject 1 given by faculty 2
AllocationCatalogs ==
    LET A(j, f, h) == [subject |-> j, faculty |-> f, hours_per_week |-> h]
    IN  {<<A(1, 1, a)>> : a \in 0..MaxHours}
        \cup {<<A(1, 1, a), A(1, 2, 1)>> : a \in 0..MaxHours}
        \cup {<<A(1, 1, a), A(2, f, 1)>> : a \in 1..MaxHours, f \in 1..2}
        \cup {<<A(1, 1, 1), A(1, 2, MaxHours)>>}

\* a ScheduledSession row needs its section, subject, faculty, room and slot
\* (on_delete=CASCADE): the table is empty when one of these tables is
PreviousSchedules ==
    IF sections # <<>> /\ rooms # <<>> /\ slots # <<>> /\ subjects # <<>> /\ faculties # <<>>
    THEN {<<OldSession>>}
    ELSE {<<>>}

BeforePass ==
    /\ stored \in PreviousSchedules
    /\ previous = stored
    /\ pc = "start"
    /\ outcome = "none"
    /\ faculty_limits = <<>>
    /\ EmptyTracking
    /\ result = <<>>
    /\ placed_by = <<>>
    /\ all_sessions = <<>>
    /\ session_index = 1
    /\ scheduled_count = 0
    /\ skipped_count = 0
    /\ skip_warnings = 0

\* the catalogs a pass can run on: the settings with their full grid of
\* slots, one to MaxSections sections of one semester, two subjects, two
\* faculties, the first with a weekly maximum of MinFacultyHours to MaxHours,
\* the second with the default maximum
CompleteCatalog ==
    /\ settings \in [working_days : 1..MaxDays, periods_per_day : 1..MaxPeriods]
    /\ slots = Grid(settings.working_days, settings.periods_per_day)
    /\ sections \in {[i \in 1..n |-> [semester |-> 1]] : n \in 1..MaxSections}
    /\ subjects \in {<<[semester |-> 1, lab_required |-> lab],
                       [semester |-> 1, lab_required |-> FALSE]>> : lab \in BOOLEAN}
    /\ faculties \in {<<[max_hours_per_week |-> m], [max_hours_per_week |-> DefaultMaxHours]>> :
                         m \in MinFacultyHours..MaxHours}
    /\ allocations \in AllocationCatalogs
    /\ rooms \in RoomCatalogs
    /\ semesters = OneSemester

\* the catalogs with a missing prerequisite: no settings, no section, no slot
\* or no room
IncompleteCatalog ==
    /\ \E missing \in {"settings", "sections", "slots", "rooms"} :
        /\ settings = IF missing = "settings" THEN NoSettings
                      ELSE [working_days |-> 1, periods_per_day |-> 1]
        /\ slots = IF missing = "slots" THEN <<>> ELSE Grid(1, 1)
        /\ sections = IF missing = "sections" THEN <<>> ELSE <<[semester |-> 1]>>
        /\ rooms = IF missing = "rooms" THEN <<>> ELSE <<[is_lab |-> FALSE]>>
    /\ subjects \in {<<[semester |-> 1, lab_required |-> lab]>> : lab \in BOOLEAN}
    /\ faculties = <<[max_hours_per_week |-> MinFacultyHours]>>
    /\ allocations = <<[subject |-> 1, faculty |-> 1, hours_per_week |-> 1]>>
    /\ semesters = OneSemester

\* the catalogs of the example scenarios: one section, one subject, one faculty
\* with one allocation, on a week of one day or of ScenarioDays days
ScenarioCatalog ==
    /\ settings \in [working_days : {1, ScenarioDays}, periods_per_day : 1..ScenarioPeriods]
    /\ slots = Grid(settings.working_days, settings.periods_per_day)
    /\ sections = <<[semester |-> 1]>>
    /\ subjects \in {<<[semester |-> 1, lab_required |-> lab]>> : lab \in BOOLEAN}
    /\ faculties \in {<<[max_hours_per_week |-> m]>> :
                         m \in (MinFacultyHours..ScenarioHours) \cup {DefaultMaxHours}}
    /\ allocations \in {<<[subject |-> 1, faculty |-> 1, hours_per_week |-> h]>> :
                           h \in 0..ScenarioHours}
    /\ rooms \in RoomCatalogs
    /\ semesters = OneSemester

\* the catalogs with a long lab: one section, a lab subject given by faculty 1
\* for LongLabHours - 1 or LongLabHours hours and a theory subject given by
\* faculty 2 for one hour, on days of LongLabHours periods
LongLabCatalog ==
    /\ settings \in [working_days : 1..MaxDays, periods_per_day : {LongLabHours}]
    /\ slots = Grid(settings.working_days, settings.periods_per_day)
    /\ sections = <<[semester |-> 1]>>
    /\ subjects = <<[semester |-> 1, lab_required |-> TRUE],
                    [semester |-> 1, lab_required |-> FALSE]>>
    /\ faculties \in {<<[max_hours_per_week |-> m], [max_hours_per_week |-> DefaultMaxHours]>> :
                         m \in {LongLabHours, DefaultMaxHours}}
    /\ allocations \in {<<[subject |-> 1, faculty |-> 1, hours_per_week |-> h],
                          [subject |-> 2, faculty |-> 2, hours_per_week |-> 1]>> :
                           h \in (LongLabHours - 1)..LongLabHours}
    /\ rooms \in RoomCatalogs
    /\ semesters = OneSemester

ScenarioInit == ScenarioCatalog /\ BeforePass /\ NoCaller

LongLabInit == LongLabCatalog /\ BeforePass /\ NoCaller

Init == (CompleteCatalog \/ IncompleteCatalog) /\ BeforePass /\ NoCaller

\* ----------------------------------------------------------------- actions
\* Validate with the clearing of line 29 moved before the checks
Validate_ClearFirst ==
    /\ pc = "start"
    /\ stored' = <<>>
    /\ IF settings = NoSettings
       THEN /\ outcome' = "No institution settings found"
            /\ pc' = "done"
            /\ UNCHANGED faculty_limits
       ELSE IF sections = <<>>
       THEN /\ outcome' = "No sections found"
            /\ pc' = "done"
            /\ UNCHANGED faculty_limits
       ELSE IF slots = <<>>
       THEN /\ outcome' = "No time slots found"
            /\ pc' = "done"
            /\ UNCHANGED faculty_limits
       ELSE /\ faculty_limits' = [f \in FacultyIds |-> FacultyLimit(f)]
            /\ pc' = "build"
            /\ UNCHANGED outcome
    /\ UNCHANGED <<catalog, caller, previous, tracking, result, placed_by, all_sessions,
                   session_index, scheduled_count, skipped_count, skip_warnings>>

\* Validate with the clearing of line 29 left out
Validate_KeepPrevious ==
    /\ pc = "start"
    /\ IF settings = NoSettings
       THEN /\ outcome' = "No institution settings found"
            /\ pc' = "done"
            /\ UNCHANGED faculty_limits
       ELSE IF sections = <<>>
       THEN /\ outcome' = "No sections found"
            /\ pc' = "done"
            /\ UNCHANGED faculty_limits
       ELSE IF slots = <<>>
       THEN /\ outcome' = "No time slots found"
            /\ pc' = "done"
            /\ UNCHANGED faculty_limits
       ELSE /\ faculty_limits' = [f \in FacultyIds |-> FacultyLimit(f)]
            /\ pc' = "build"
            /\ UNCHANGED outcome
    /\ UNCHANGED <<catalog, caller, stored, previous, tracking, result, placed_by, all_sessions,
                   session_index, scheduled_count, skipped_count, skip_warnings>>

\* lines 11-52: the prerequisite checks, the clearing of the previous
\* sessions, the tracking structures and the faculty limits
Validate ==
    /\ pc = "start"
    /\ IF settings = NoSettings
       THEN /\ outcome' = "No institution settings found"
            /\ pc' = "done"
            /\ UNCHANGED <<stored, faculty_limits>>
       ELSE IF sections = <<>>
       THEN /\ outcome' = "No sections found"
            /\ pc' = "done"
            /\ UNCHANGED <<stored, faculty_limits>>
       ELSE IF slots = <<>>
       THEN /\ outcome' = "No time slots found"
            /\ pc' = "done"
            /\ UNCHANGED <<stored, faculty_limits>>
       ELSE /\ stored' = <<>>
            /\ faculty_limits' = [f \in FacultyIds |-> FacultyLimit(f)]
            /\ pc' = "build"
            /\ UNCHANGED outcome
    /\ UNCHANGED <<catalog, caller, previous, tracking, result, placed_by, all_sessions,
                   session_index, scheduled_count, skipped_count, skip_warnings>>

\* lines 54-137: the Demand Builder
BuildDemands ==
    /\ pc = "build"
    /\ all_sessions' = BuildResult.all_sessions
    /\ skip_warnings' = skip_warnings + BuildResult.skip_warnings
    /\ pc' = "sort"
    /\ UNCHANGED <<catalog, caller, stored, previous, outcome, faculty_limits, tracking, result,
                   placed_by, session_index, scheduled_count, skipped_count>>

\* SortDemands with the demands left in the order the builder emitted them
SortDemands_Unsorted ==
    /\ pc = "sort"
    /\ pc' = "loop"
    /\ UNCHANGED <<catalog, caller, stored, previous, outcome, faculty_limits, tracking, result,
                   placed_by, all_sessions, session_index, scheduled_count, skipped_count,
                   skip_warnings>>

\* lines 160-180: the sort of the demands
SortDemands ==
    /\ pc = "sort"
    /\ all_sessions' \in SortedSessions(all_sessions)
    /\ pc' = "loop"
    /\ UNCHANGED <<catalog, caller, stored, previous, outcome, faculty_limits, tracking, result,
                   placed_by, session_index, scheduled_count, skipped_count, skip_warnings>>

\* Commit without the update of section_day_count of line 336
Commit_NoDayCount(session, slot, room, how) ==
    /\ faculty_schedule' = [faculty_schedule EXCEPT ![session.faculty] = @ \cup {slot}]
    /\ faculty_hours_used' =
          [f \in DOMAIN faculty_hours_used \cup {session.faculty} |->
              IF f = session.faculty THEN HoursUsed(f) + 1 ELSE faculty_hours_used[f]]
    /\ room_schedule' = [room_schedule EXCEPT ![room] = @ \cup {slot}]
    /\ section_schedule' = [section_schedule EXCEPT ![session.section] = @ \cup {slot}]
    /\ section_day_count' = section_day_count
    /\ subject_day_count' =
          [subject_day_count EXCEPT ![session.section][session.subject][slots[slot].day] = @ + 1]
    /\ stored' = Append(stored,
          [section |-> session.section, subject |-> session.subject,
           faculty |-> session.faculty, room |-> room, slot |-> slot,
           is_lab_session |-> session.is_lab])
    /\ result' = Append(result,
          [section |-> session.section, subject |-> session.subject,
           faculty |-> session.faculty, room |-> room,
           day |-> slots[slot].day, period |-> slots[slot].period_number,
           is_lab |-> session.is_lab, allocation_hours |-> session.allocation_hours,
           faculty_total_load |-> HoursUsed(session.faculty) + 1])
    /\ placed_by' = Append(placed_by, how)
    /\ scheduled_count' = scheduled_count + 1
    /\ UNCHANGED <<skipped_count, skip_warnings>>

\* lines 329-362: the commit of an accepted slot and room
Commit(session, slot, room, how) ==
    /\ faculty_schedule' = [faculty_schedule EXCEPT ![session.faculty] = @ \cup {slot}]
    /\ faculty_hours_used' =
          [f \in DOMAIN faculty_hours_used \cup {session.faculty} |->
              IF f = session.faculty THEN HoursUsed(f) + 1 ELSE faculty_hours_used[f]]
    /\ room_schedule' = [room_schedule EXCEPT ![room] = @ \cup {slot}]
    /\ section_schedule' = [section_schedule EXCEPT ![session.section] = @ \cup {slot}]
    /\ section_day_count' =
          [section_day_count EXCEPT ![session.section][slots[slot].day] = @ + 1]
    /\ subject_day_count' =
          [subject_day_count EXCEPT ![session.section][session.subject][slots[slot].day] = @ + 1]
    /\ stored' = Append(stored,
          [section |-> session.section, subject |-> session.subject,
           faculty |-> session.faculty, room |-> room, slot |-> slot,
           is_lab_session |-> session.is_lab])
    /\ result' = Append(result,
          [section |-> session.section, subject |-> session.subject,
           faculty |-> session.faculty, room |-> room,
           day |-> slots[slot].day, period |-> slots[slot].period_number,
           is_lab |-> session.is_lab, allocation_hours |-> session.allocation_hours,
           faculty_total_load |-> HoursUsed(session.faculty) + 1])
    /\ placed_by' = Append(placed_by, how)
    /\ scheduled_count' = scheduled_count + 1
    /\ UNCHANGED <<skipped_count, skip_warnings>>

\* Skip with the warning logged and the counter left alone
Skip_Uncounted ==
    /\ skip_warnings' = skip_warnings + 1
    /\ UNCHANGED <<skipped_count, tracking, stored, result, placed_by, scheduled_count>>

\* Skip with the per-day counters of the sections reset
Skip_ResetsDayCount ==
    /\ skipped_count' = skipped_count + 1
    /\ skip_warnings' = skip_warnings + 1
    /\ section_day_count' = [s \in SectionIds |-> [d \in Days |-> 0]]
    /\ UNCHANGED <<faculty_schedule, faculty_hours_used, room_schedule, section_schedule,
                   subject_day_count, stored, result, placed_by, scheduled_count>>

\* lines 193-195 and 366-367: the demand is skipped with a warning
Skip ==
    /\ skipped_count' = skipped_count + 1
    /\ skip_warnings' = skip_warnings + 1
    /\ UNCHANGED <<tracking, stored, result, placed_by, scheduled_count>>

\* ProcessDemand leaving the loop at the first demand it cannot place
ProcessDemand_AbortOnSkip ==
    /\ pc = "loop"
    /\ session_index <= Len(all_sessions)
    /\ LET session == all_sessions[session_index]
       IN  \E day_order \in DayOrders(session) :
           \E selected \in {SelectSlot(session, day_order)} :
           \E best \in {IF selected.slot # 0 THEN selected ELSE FallbackSlot(session)} :
                IF HoursUsed(session.faculty) >= faculty_limits[session.faculty]
                THEN Skip
                ELSE IF best.slot # 0 /\ best.room # 0
                THEN Commit(session, best.slot, best.room,
                            IF selected.slot # 0 THEN "selector" ELSE "fallback")
                ELSE Skip
    /\ session_index' = IF skipped_count' > skipped_count
                        THEN Len(all_sessions) + 1
                        ELSE session_index + 1
    /\ UNCHANGED <<catalog, caller, previous, pc, outcome, faculty_limits, all_sessions>>

\* lines 182-367: one iteration of the main loop
ProcessDemand ==
    /\ pc = "loop"
    /\ session_index <= Len(all_sessions)
    /\ LET session == all_sessions[session_index]
       IN  \E day_order \in DayOrders(session) :
           \E selected \in {SelectSlot(session, day_order)} :
           \E best \in {IF selected.slot # 0 THEN selected ELSE FallbackSlot(session)} :
                IF HoursUsed(session.faculty) >= faculty_limits[session.faculty]
                THEN Skip
                ELSE IF best.slot # 0 /\ best.room # 0
                THEN Commit(session, best.slot, best.room,
                            IF selected.slot # 0 THEN "selector" ELSE "fallback")
                ELSE Skip
    /\ session_index' = session_index + 1
    /\ UNCHANGED <<catalog, caller, previous, pc, outcome, faculty_limits, all_sessions>>

\* Finish with a success rate under 70% raised as a failure
Finish_LowRateFails ==
    /\ pc = "loop"
    /\ session_index > Len(all_sessions)
    /\ outcome' = IF scheduled_count = 0
                     \/ scheduled_count * 100 < 70 * Len(all_sessions)
                  THEN "No sessions could be scheduled"
                  ELSE "success"
    /\ pc' = "done"
    /\ UNCHANGED <<catalog, caller, stored, previous, faculty_limits, tracking, result, placed_by,
                   all_sessions, session_index, scheduled_count, skipped_count,
                   skip_warnings>>

\* Finish with the success rate of line 449 computed before the zero-result
\* check of line 415
Finish_RateFirst ==
    /\ pc = "loop"
    /\ session_index > Len(all_sessions)
    /\ outcome' = IF Len(all_sessions) = 0 THEN "ZeroDivisionError"
                  ELSE IF scheduled_count = 0
                  THEN "No sessions could be scheduled"
                  ELSE "success"
    /\ pc' = "done"
    /\ UNCHANGED <<catalog, caller, stored, previous, faculty_limits, tracking, result, placed_by,
                   all_sessions, session_index, scheduled_count, skipped_count,
                   skip_warnings>>

\* lines 369-486: the statistics, the zero-result failure and the result
Finish ==
    /\ pc = "loop"
    /\ session_index > Len(all_sessions)
    /\ outcome' = IF scheduled_count = 0
                  THEN "No sessions could be scheduled"
                  ELSE IF Len(all_sessions) = 0 THEN "ZeroDivisionError"
                  ELSE "success"
    /\ pc' = "done"
    /\ UNCHANGED <<catalog, caller, stored, previous, faculty_limits, tracking, result, placed_by,
                   all_sessions, session_index, scheduled_count, skipped_count,
                   skip_warnings>>

\* UnderutilizedFaculty with the faculties at 50% taken in as well
UnderutilizedFaculty_Inclusive ==
    {f \in DOMAIN faculty_hours_used :
        /\ faculty_hours_used[f] * 100 <= 50 * faculty_limits[f]
        /\ faculty_hours_used[f] > 0}

\* underutilized_faculty of lines 432-438, as the set of the faculties listed
UnderutilizedFaculty ==
    {f \in DOMAIN faculty_hours_used :
        /\ faculty_hours_used[f] * 100 < 50 * faculty_limits[f]
        /\ faculty_hours_used[f] > 0}

\* overutilized_faculty of lines 432-440, as the set of the faculties listed
OverutilizedFaculty ==
    {f \in DOMAIN faculty_hours_used :
        /\ ~(faculty_hours_used[f] * 100 < 50 * faculty_limits[f]
             /\ faculty_hours_used[f] > 0)
        /\ faculty_hours_used[f] >= faculty_limits[f]}

Next == Validate \/ BuildDemands \/ SortDemands \/ ProcessDemand \/ Finish

Spec == Init /\ [][Next]_vars

ScenarioSpec == ScenarioInit /\ [][Next]_vars

LongLabSpec == LongLabInit /\ [][Next]_vars

\* the pass is one sequential computation in a single thread: a step that can
\* be taken is taken; the catalogs are those of Init with at most FairDays days
FairInit == Init /\ settings.working_days <= FairDays

FairSpec == FairInit /\ [][Next]_vars /\ WF_vars(Next)

\* ------------------------------------------- a second pass on the same catalog
\* the tracking structures of lines 32-41 as a pass creates them, for a
\* catalog of nsec sections and nsub subjects
StartTracking(nsec, nsub) ==
    /\ faculty_schedule' = [f \in FacultyIds |-> {}]
    /\ faculty_hours_used' = <<>>
    /\ room_schedule' = [r \in RoomIds |-> {}]
    /\ section_schedule' = [s \in 1..nsec |-> {}]
    /\ section_day_count' = [s \in 1..nsec |-> [d \in Days |-> 0]]
    /\ subject_day_count' = [s \in 1..nsec |-> [j \in 1..nsub |-> [d \in Days |-> 0]]]

\* generate_timetable is called again once a pass has returned or raised: the
\* catalog is the same, the ScheduledSession table is what the pass left, and
\* random is the module generator nobody seeds (lines 4, 169, 220)
Rerun ==
    /\ pc = "done"
    /\ first_run = <<>>
    /\ first_run' = <<[outcome |-> outcome, timetable |-> result,
                       scheduled |-> scheduled_count, skipped |-> skipped_count,
                       total_sessions_needed |-> Len(all_sessions)]>>
    /\ previous' = stored
    /\ pc' = "start"
    /\ outcome' = "none"
    /\ faculty_limits' = <<>>
    /\ StartTracking(Len(sections), Len(subjects))
    /\ result' = <<>>
    /\ placed_by' = <<>>
    /\ all_sessions' = <<>>
    /\ session_index' = 1
    /\ scheduled_count' = 0
    /\ skipped_count' = 0
    /\ skip_warnings' = 0
    /\ UNCHANGED <<catalog, request, probe, stored>>

RerunNext == Next \/ Rerun

RerunSpec == ScenarioInit /\ [][RerunNext]_vars

\* ------------------------------- generate_from_academic_setup (views.py 497-631)
\* the academic data of a request: none, or one semester with its sections
\* (the names that are not blank), one subject and one faculty assignment of
\* hours hours (0: the assignment is not kept, line 588)
RequestData ==
    {[given |-> FALSE, sections |-> 0, lab |-> FALSE, hours |-> 0, weekly_hours |-> 1]}
    \cup [given : {TRUE}, sections : 0..MaxSections, lab : BOOLEAN,
          hours : 0..MaxHours, weekly_hours : {1, MaxHours}]

\* the tables the request can change
Tables ==
    [stored |-> stored, slots |-> slots, semesters |-> semesters, sections |-> sections,
     subjects |-> subjects, allocations |-> allocations]

\* a request arrives at an institute that is set up and has the academic data
\* and the schedule of an earlier request
RequestInit ==
    /\ settings \in [working_days : 1..MaxDays, periods_per_day : 1..MaxPeriods]
    /\ slots = Grid(settings.working_days, settings.periods_per_day)
    /\ semesters = OneSemester
    /\ sections = <<[semester |-> 1]>>
    /\ subjects = <<[semester |-> 1, lab_required |-> FALSE]>>
    /\ faculties \in {<<[max_hours_per_week |-> m]>> : m \in MinFacultyHours..MaxHours}
    /\ allocations = <<[subject |-> 1, faculty |-> 1, hours_per_week |-> 1]>>
    /\ rooms \in RoomCatalogs
    /\ stored = <<OldSession>>
    /\ previous = stored
    /\ request \in {[phase |-> "received", status |-> 0, data |-> d, before |-> Tables] :
                       d \in RequestData}
    /\ first_run = <<>>
    /\ probe = NoProbe
    /\ pc = "idle"
    /\ outcome = "none"
    /\ faculty_limits = <<>>
    /\ EmptyTracking
    /\ result = <<>>
    /\ placed_by = <<>>
    /\ all_sessions = <<>>
    /\ session_index = 1
    /\ scheduled_count = 0
    /\ skipped_count = 0
    /\ skip_warnings = 0

\* the response is returned: the tables stay as they are
Respond(status) ==
    /\ request' = [request EXCEPT !.phase = "responded", !.status = status]
    /\ UNCHANGED <<settings, slots, sections, subjects, faculties, allocations, rooms,
                   semesters, stored, previous, pc, tracking, probe>>

\* lines 497-616: the checks of the request, then, inside transaction.atomic(),
\* the clearing of the academic and scheduling data and the creation of the
\* slots, the semester, the subject, the allocation and the sections, up to
\* the call of generate_timetable
BeginRequest ==
    /\ request.phase = "received"
    /\ LET d == request.data
       IN  IF settings = NoSettings \/ ~d.given \/ faculties = <<>>
           THEN \* lines 509-525: returned before the transaction
                Respond(400)
           ELSE IF d.hours > d.weekly_hours
           THEN \* FacultySubjectAllocation.clean raises at line 596: the
                \* exception leaves the atomic block, which rolls back
                Respond(500)
           ELSE /\ semesters' = <<[id |-> semesters[Len(semesters)].id + 1, number |-> 1]>>
                /\ stored' = <<>>
                /\ slots' = Grid(settings.working_days, settings.periods_per_day)
                /\ subjects' = <<[semester |-> 1, lab_required |-> d.lab]>>
                /\ allocations' = IF d.hours > 0
                                  THEN <<[subject |-> 1, faculty |-> 1,
                                          hours_per_week |-> d.hours]>>
                                  ELSE <<>>
                /\ sections' = [i \in 1..d.sections |-> [semester |-> 1]]
                /\ UNCHANGED <<settings, faculties, rooms>>
                /\ StartTracking(d.sections, 1)
                /\ IF d.sections = 0
                   THEN \* lines 613-614: return inside the atomic block, which
                        \* commits what was done
                        /\ request' = [request EXCEPT !.phase = "responded", !.status = 400]
                        /\ UNCHANGED <<previous, pc>>
                   ELSE \* line 617
                        /\ request' = [request EXCEPT !.phase = "generating"]
                        /\ previous' = <<>>
                        /\ pc' = "start"
    /\ UNCHANGED <<first_run, probe, outcome, faculty_limits, result, placed_by, all_sessions,
                   session_index, scheduled_count, skipped_count, skip_warnings>>

\* lines 617-631: generate_timetable returned, the atomic block commits and the
\* response is 200; or it raised, the atomic block rolls back and the
\* response is 500
EndRequest ==
    /\ request.phase = "generating"
    /\ pc = "done"
    /\ IF outcome = "success"
       THEN /\ request' = [request EXCEPT !.phase = "responded", !.status = 200]
            /\ UNCHANGED <<slots, sections, subjects, allocations, semesters, stored>>
       ELSE /\ request' = [request EXCEPT !.phase = "responded", !.status = 500]
            /\ stored' = request.before.stored
            /\ slots' = request.before.slots
            /\ semesters' = request.before.semesters
            /\ sections' = request.before.sections
            /\ subjects' = request.before.subjects
            /\ allocations' = request.before.allocations
    /\ UNCHANGED <<settings, faculties, rooms, first_run, probe, previous, pc, outcome,
                   faculty_limits, tracking, result, placed_by, all_sessions, session_index,
                   scheduled_count, skipped_count, skip_warnings>>

RequestNext == BeginRequest \/ Next \/ EndRequest

RequestSpec == RequestInit /\ [][RequestNext]_vars

\* ----------------------------------------- the period ranking (lines 233-240)
\* a grid of one to MaxDays days of one to RankedPeriods periods, before any
\* pass, with the catalog of a one-hour theory subject
RankingInit ==
    /\ settings \in [working_days : 1..MaxDays, periods_per_day : 1..RankedPeriods]
    /\ slots = Grid(settings.working_days, settings.periods_per_day)
    /\ sections = <<[semester |-> 1]>>
    /\ subjects = <<[semester |-> 1, lab_required |-> FALSE]>>
    /\ faculties = <<[max_hours_per_week |-> DefaultMaxHours]>>
    /\ allocations = <<[subject |-> 1, faculty |-> 1, hours_per_week |-> 1]>>
    /\ rooms = <<[is_lab |-> FALSE]>>
    /\ semesters = OneSemester
    /\ BeforePass
    /\ NoCaller

\* lines 233-238: slot_attempts of one preferred day, sorted
RankPeriods ==
    /\ probe = NoProbe
    /\ \E preferred_day \in Days :
          probe' = [day |-> preferred_day, slot_attempts |-> SlotAttempts(preferred_day),
                    tried |-> 0]
    /\ UNCHANGED <<catalog, request, first_run, stored, previous, pc, outcome, faculty_limits,
                   tracking, result, all_sessions, session_index, scheduled_count,
                   skipped_count, skip_warnings, placed_by>>

\* line 240: the loop takes the next slot of slot_attempts
TryPeriod ==
    /\ probe.tried < Len(probe.slot_attempts)
    /\ probe' = [probe EXCEPT !.tried = @ + 1]
    /\ UNCHANGED <<catalog, request, first_run, stored, previous, pc, outcome, faculty_limits,
                   tracking, result, all_sessions, session_index, scheduled_count,
                   skipped_count, skip_warnings, placed_by>>

RankingNext == RankPeriods \/ TryPeriod

RankingSpec == RankingInit /\ [][RankingNext]_vars

\* ------------------------------------------------------------- properties
\* the ValueErrors raised by the prerequisite checks of lines 15-22
ValidationErrors ==
    {"No institution settings found", "No sections found", "No time slots found"}

\* the pass got past the prerequisite checks
PassStarted ==
    \/ pc \in {"build", "sort", "loop"}
    \/ pc = "done" /\ outcome \notin ValidationErrors

\* the pairs of distinct rows of the output
RowPairs == {p \in (1..Len(result)) \X (1..Len(result)) : p[1] < p[2]}

SameSlot(r1, r2) == r1.day = r2.day /\ r1.period = r2.period

\* C1: at every point of a pass no two rows of the output have the same slot
\* and the same faculty, whether the Slot Selector or the Fallback Resolver
\* accepted them.
C1_NoFacultyClash ==
    \A p \in RowPairs :
        SameSlot(result[p[1]], result[p[2]]) => result[p[1]].faculty # result[p[2]].faculty

\* a faculty has one session accepted by the Slot Selector and a later one
\* accepted by the Fallback Resolver
C1_Witness ==
    \E p \in RowPairs :
        /\ result[p[1]].faculty = result[p[2]].faculty
        /\ placed_by[p[1]] = "selector"
        /\ placed_by[p[2]] = "fallback"

\* C2: at every point of a pass no two rows of the output have the same slot
\* and the same room.
C2_NoRoomClash ==
    \A p \in RowPairs :
        SameSlot(result[p[1]], result[p[2]]) => result[p[1]].room # result[p[2]].room

\* two sections with different faculties got the same room
C2_Witness ==
    \E p \in RowPairs :
        /\ result[p[1]].room = result[p[2]].room
        /\ result[p[1]].section # result[p[2]].section
        /\ result[p[1]].faculty # result[p[2]].faculty

\* C3: at every point of a pass no two rows of the output have the same slot
\* and the same section.
C3_NoSectionClash ==
    \A p \in RowPairs :
        SameSlot(result[p[1]], result[p[2]]) => result[p[1]].section # result[p[2]].section

\* a section has two sessions of one subject given by two faculties, the
\* second one placed by the Fallback Resolver
C3_Witness ==
    \E p \in RowPairs :
        /\ result[p[1]].section = result[p[2]].section
        /\ result[p[1]].subject = result[p[2]].subject
        /\ result[p[1]].faculty # result[p[2]].faculty
        /\ placed_by[p[2]] = "fallback"

\* the rows of the output of a faculty
FacultyRows(f) == {i \in 1..Len(result) : result[i].faculty = f}

\* C4: at every point of a pass the hours used by a faculty, and the number
\* of its rows in the output, are at most its max_hours_per_week.
C4_HoursWithinWeeklyMaximum ==
    \A f \in FacultyIds :
        /\ HoursUsed(f) <= faculties[f].max_hours_per_week
        /\ Cardinality(FacultyRows(f)) <= faculties[f].max_hours_per_week

\* the pass is over, a faculty stands at its weekly maximum, and the hours
\* allocated to it over the sections are more than that
C4_Witness ==
    /\ pc = "done"
    /\ HoursUsed(1) = faculties[1].max_hours_per_week
    /\ allocations[1].hours_per_week * Len(sections) > faculties[1].max_hours_per_week

MissingPrerequisite ==
    settings = NoSettings \/ sections = <<>> \/ slots = <<>> \/ rooms = <<>>

\* C5 as claimed: with no settings, no section, no slot or no room the pass
\* does not start, it ends in an error, no session is created and the stored
\* schedule is the one found.
C5_PassDoesNotStart ==
    MissingPrerequisite =>
        /\ ~PassStarted
        /\ stored = previous
        /\ result = <<>>
        /\ (pc = "done" => outcome # "success")

\* C5 as amended: with no settings, no section or no slot the pass does not
\* start and raises the error of the check; with no room it starts, emits no
\* demand and raises the zero-result error; in the four cases no session is
\* created and the stored schedule is the one found.
C5_MissingPrerequisiteIsFatal ==
    /\ (settings = NoSettings \/ sections = <<>> \/ slots = <<>>) =>
          /\ ~PassStarted
          /\ stored = previous
          /\ result = <<>>
          /\ (pc = "done" => outcome \in ValidationErrors)
    /\ rooms = <<>> =>
          /\ stored = previous
          /\ result = <<>>
          /\ all_sessions = <<>>
          /\ (pc = "done" =>
                outcome \in ValidationErrors \cup {"No sessions could be scheduled"})

\* the pass was refused for its missing settings and the schedule of the
\* earlier pass is still stored
C5_Witness ==
    /\ pc = "done"
    /\ settings = NoSettings
    /\ outcome = "No institution settings found"
    /\ stored # <<>>

\* C6: a pass that started ends in a failure exactly when scheduled_count is
\* 0; with one session or more it returns success with the schedule.
C6_FailureIffNothingScheduled ==
    (pc = "done" /\ PassStarted) =>
        /\ (outcome # "success") <=> (scheduled_count = 0)
        /\ scheduled_count > 0 => (outcome = "success" /\ Len(result) = scheduled_count)

\* a pass returned success with a success rate under 70%
C6_Witness ==
    /\ pc = "done"
    /\ outcome = "success"
    /\ scheduled_count * 100 < 70 * Len(all_sessions)

\* C7 as claimed: every skip that is logged (non-positive hours, no remaining
\* capacity, no eligible room, no feasible slot) is counted in skipped_count.
C7_EverySkipCounted ==
    PassStarted => skipped_count = skip_warnings

\* C7 as amended: the pass goes on after each of the four kinds of skip, and
\* skipped_count counts the demands the main loop gave up, not the
\* allocations the Demand Builder skipped.
C7_OnlyLoopSkipsCounted ==
    /\ pc \in {"sort", "loop"} \/ (pc = "done" /\ PassStarted) =>
          /\ skipped_count = (session_index - 1) - scheduled_count
          /\ skip_warnings = BuildResult.skip_warnings + skipped_count
    /\ (pc = "done" /\ PassStarted) => session_index = Len(all_sessions) + 1

\* the pass is over, the Demand Builder skipped an allocation and the main
\* loop skipped a demand
C7_Witness ==
    /\ pc = "done"
    /\ PassStarted
    /\ BuildResult.skip_warnings > 0
    /\ skipped_count > 0

\* the catalog of the scenarios: one section, one subject, one faculty with
\* one allocation of h hours and a weekly maximum of m
ScenarioH == allocations[1].hours_per_week
ScenarioM == faculties[1].max_hours_per_week

\* C8 as claimed: with m < h, m sessions are scheduled and the h - m hours
\* beyond the capacity are counted as skipped.
C8_ExcessHoursSkipped ==
    (pc = "done" /\ ScenarioM < ScenarioH) =>
        /\ scheduled_count = ScenarioM
        /\ skipped_count = ScenarioH - ScenarioM

\* C8 as amended: with m < h, min(m, periods_per_day) demands are emitted and
\* all of them are scheduled; the hours beyond are never emitted as demands
\* and skipped_count is 0.
C8_ExcessHoursNotEmitted ==
    (pc = "done" /\ ScenarioM < ScenarioH) =>
        /\ Len(all_sessions) = Min(ScenarioM, settings.periods_per_day)
        /\ scheduled_count = Min(ScenarioM, settings.periods_per_day)
        /\ skipped_count = 0
        /\ outcome = "success"

\* the second scenario of the specification but for the number of days:
\* h = 3, m = 2, six periods, a lab and a non-lab room
C8_Witness ==
    /\ pc = "done"
    /\ ScenarioH = 3
    /\ ScenarioM = 2
    /\ settings.periods_per_day = 6
    /\ settings.working_days = ScenarioDays
    /\ Len(rooms) = 2 /\ rooms[1].is_lab /\ ~rooms[2].is_lab
    /\ scheduled_count = 2

\* C9: one section, one non-lab subject, h hours with h <= periods_per_day
\* and h <= the faculty limit, a non-lab room: the pass schedules h sessions
\* in h distinct slots, the faculty has h hours used, nothing is skipped.
C9_AllHoursScheduled ==
    (/\ pc = "done"
     /\ ~subjects[1].lab_required
     /\ ScenarioH <= settings.periods_per_day
     /\ ScenarioH <= FacultyLimit(1)
     /\ RoomsOfType(FALSE) # <<>>) =>
        /\ Len(result) = ScenarioH
        /\ scheduled_count = ScenarioH
        /\ Cardinality({<<result[i].day, result[i].period>> : i \in 1..Len(result)}) = ScenarioH
        /\ HoursUsed(1) = ScenarioH
        /\ skipped_count = 0

\* three hours of a theory subject on a single day of three periods, the
\* last one placed by the Fallback Resolver
C9_Witness ==
    /\ pc = "done"
    /\ ~subjects[1].lab_required
    /\ ScenarioH = 3
    /\ settings.periods_per_day = 3
    /\ settings.working_days = 1
    /\ Len(result) = 3
    /\ placed_by[3] = "fallback"

\* the catalog has rooms, none of the type subject j requires
OppositeTypeOnly(j) ==
    rooms # <<>> /\ RoomsOfType(subjects[j].lab_required) = <<>>

DemandsOf(sec, a) ==
    {i \in 1..Len(all_sessions) :
        all_sessions[i].section = sec /\ all_sessions[i].allocation_id = a}

\* C10: a subject with no room of its type but rooms of the other type has
\* its demands emitted with those rooms (unless its faculty is fully
\* committed), its sessions are in rooms of the other type, the pass does not
\* fail once one of its demands exists, and when it is the only subject of the
\* only section all its demands are scheduled.
C10_OppositeTypeRoomsUsed ==
    \A j \in SubjectIds :
        (OppositeTypeOnly(j) /\ PassStarted /\ pc # "build") =>
            /\ \A sec \in SectionIds, a \in 1..Len(allocations) :
                  (/\ allocations[a].subject = j
                   /\ subjects[j].semester = sections[sec].semester
                   /\ allocations[a].hours_per_week > 0) =>
                      \/ DemandsOf(sec, a) # {}
                      \/ Cardinality({i \in 1..Len(all_sessions) :
                              all_sessions[i].faculty = allocations[a].faculty})
                            >= faculty_limits[allocations[a].faculty]
            /\ \A i \in 1..Len(all_sessions) :
                  all_sessions[i].subject = j =>
                      all_sessions[i].available_rooms = RoomsOfType(~subjects[j].lab_required)
            /\ \A i \in 1..Len(result) :
                  result[i].subject = j =>
                      rooms[result[i].room].is_lab # subjects[j].lab_required
            /\ (pc = "done" /\ \E i \in 1..Len(all_sessions) : all_sessions[i].subject = j)
                  => outcome = "success"
            /\ (pc = "done" /\ Len(sections) = 1 /\ Len(allocations) = 1)
                  => scheduled_count = Len(all_sessions)

\* a lab subject with two hours and a single theory room: both sessions are
\* in that room
C10_Witness ==
    /\ pc = "done"
    /\ subjects[1].lab_required
    /\ Len(rooms) = 1 /\ ~rooms[1].is_lab
    /\ Len(sections) = 1 /\ Len(allocations) = 1
    /\ Len(result) = 2
    /\ result[1].room = 1 /\ result[2].room = 1
    /\ ~SameSlot(result[1], result[2])
    /\ outcome = "success"

\* C11: with no room in the catalog the pass ends in an error, the ValueError
\* of a check or of the zero-result test and never the division by the zero
\* demand count; no demand is emitted and no session is created or stored.
C11_NoRoomsIsFatal ==
    rooms = <<>> =>
        /\ all_sessions = <<>>
        /\ result = <<>>
        /\ scheduled_count = 0
        /\ Len(stored) <= Len(previous)
        /\ (pc = "done" =>
              /\ outcome # "success"
              /\ outcome # "ZeroDivisionError"
              /\ PassStarted => outcome = "No sessions could be scheduled")

\* a pass on a catalog with settings, a section and slots but no room ended
\* with the zero-result error after the builder skipped the allocation
C11_Witness ==
    /\ rooms = <<>>
    /\ pc = "done"
    /\ PassStarted
    /\ skip_warnings > 0
    /\ outcome = "No sessions could be scheduled"

\* the rows of the output of a section and subject on a day whose period is
\* one of the lim periods from first on
WindowRows(sec, subj, day, first, lim) ==
    {i \in 1..Len(result) :
        /\ result[i].section = sec
        /\ result[i].subject = subj
        /\ result[i].day = day
        /\ result[i].period \in first..(first + lim - 1)}

SubjectLimit(subj) ==
    IF subjects[subj].lab_required THEN LabConsecutiveLimit ELSE TheoryConsecutiveLimit

\* C13: at every point of a pass, for every section, subject and day, the
\* sessions of the output in any window of consecutive_limit consecutive
\* periods (2 for a theory subject, 3 for a lab subject) are at most
\* consecutive_limit, whoever placed them.
C13_WindowWithinLimit ==
    \A sec \in SectionIds, subj \in SubjectIds, day \in Days :
        \A first \in 1..settings.periods_per_day :
            Cardinality(WindowRows(sec, subj, day, first, SubjectLimit(subj)))
                <= SubjectLimit(subj)

\* a theory subject has three sessions in the three periods of a day, the
\* third placed by the Fallback Resolver: its windows of two periods are full
C13_Witness ==
    /\ ~subjects[1].lab_required
    /\ settings.periods_per_day = 3
    /\ Cardinality(WindowRows(1, 1, 1, 1, 3)) = 3
    /\ Cardinality(WindowRows(1, 1, 1, 2, TheoryConsecutiveLimit)) = TheoryConsecutiveLimit
    /\ \E i \in WindowRows(1, 1, 1, 1, 3) : placed_by[i] = "fallback"

\* C14: when a pass returns success the ScheduledSession table holds one row
\* per row of the output, the same session in the same order, and so no row
\* of an earlier pass.
C14_StoredIsOutput ==
    (pc = "done" /\ outcome = "success") =>
        /\ Len(stored) = Len(result)
        /\ \A i \in 1..Len(result) :
              /\ stored[i].section = result[i].section
              /\ stored[i].subject = result[i].subject
              /\ stored[i].faculty = result[i].faculty
              /\ stored[i].room = result[i].room
              /\ slots[stored[i].slot].day = result[i].day
              /\ slots[stored[i].slot].period_number = result[i].period
              /\ stored[i].is_lab_session = result[i].is_lab

\* a pass that found the session of an earlier pass in the table returned
\* success with two sessions or more
C14_Witness ==
    /\ pc = "done"
    /\ outcome = "success"
    /\ previous # <<>>
    /\ Len(result) >= 2

\* C16 as claimed: in the result of a successful pass the underutilized list
\* holds every faculty with less than half of its limit used, those without
\* any session included, and the at-capacity list holds exactly the faculties
\* whose hours equal their limit.
C16_AllUnderHalfListed ==
    (pc = "done" /\ outcome = "success") =>
        /\ UnderutilizedFaculty =
              {f \in FacultyIds : 2 * Cardinality(FacultyRows(f)) < faculty_limits[f]}
        /\ OverutilizedFaculty =
              {f \in FacultyIds : Cardinality(FacultyRows(f)) = faculty_limits[f]}

\* C16 as amended: the underutilized list holds exactly the faculties with at
\* least one session and less than half of their limit used; a faculty with no
\* session is in neither list; the at-capacity list holds exactly the
\* faculties whose hours equal their limit.
C16_OnlyScheduledFacultyListed ==
    (pc = "done" /\ outcome = "success") =>
        /\ UnderutilizedFaculty =
              {f \in FacultyIds : /\ Cardinality(FacultyRows(f)) >= 1
                                  /\ 2 * Cardinality(FacultyRows(f)) < faculty_limits[f]}
        /\ OverutilizedFaculty =
              {f \in FacultyIds : Cardinality(FacultyRows(f)) = faculty_limits[f]}
        /\ \A f \in FacultyIds :
              FacultyRows(f) = {} => f \notin UnderutilizedFaculty \cup OverutilizedFaculty

\* a successful pass left the first faculty at its limit and the second with
\* one session and less than half of its limit
C16_Witness ==
    /\ pc = "done"
    /\ outcome = "success"
    /\ OverutilizedFaculty = {1}
    /\ UnderutilizedFaculty = {2}

\* C17: the demands are processed one after the other, each exactly once, and
\* each ends scheduled or skipped: scheduled_count + skipped_count is the
\* number of demands processed so far, a pass in its main loop reaches its
\* end, and there the sum is the number of demands, the denominator of the
\* success rate.
C17_EveryDemandProcessed ==
    /\ [](/\ scheduled_count + skipped_count = session_index - 1
          /\ (pc = "done" /\ PassStarted) => session_index = Len(all_sessions) + 1)
    /\ [][(pc = "loop" /\ pc' = "loop") =>
              /\ session_index' = session_index + 1
              /\ scheduled_count' + skipped_count' = scheduled_count + skipped_count + 1]_vars
    /\ (pc = "loop") ~>
          (pc = "done" /\ scheduled_count + skipped_count = Len(all_sessions))

\* the main loop skipped a demand and has demands left to process
C17_Witness ==
    /\ pc = "loop"
    /\ skipped_count > 0
    /\ session_index <= Len(all_sessions)

\* the (section, allocation) pairs the loops of the Demand Builder reach
BuilderPairs ==
    {q \in SectionIds \X (1..Len(allocations)) :
        subjects[allocations[q[2]].subject].semester = sections[q[1]].semester}

\* the rank of a pair in the order of the loops: by section, then by subject,
\* then by allocation
VisitRank(q) ==
    ((q[1] - 1) * Len(subjects) + (allocations[q[2]].subject - 1)) * Len(allocations)
        + (q[2] - 1)

\* the demands emitted for the faculty of the pair q by the pairs before q
EmittedBefore(q) ==
    LET earlier == {e \in BuilderPairs :
                        /\ VisitRank(e) < VisitRank(q)
                        /\ allocations[e[2]].faculty = allocations[q[2]].faculty}
    IN  SumOver(earlier, [e \in earlier |-> Cardinality(DemandsOf(e[1], e[2]))])

\* min(hours_per_week, periods_per_day, limit - hours committed before) when
\* the faculty has capacity left, 0 otherwise
ExpectedDemands(q) ==
    LET remaining == faculty_limits[allocations[q[2]].faculty] - EmittedBefore(q)
    IN  IF remaining >= 1
        THEN Min(Min(allocations[q[2]].hours_per_week, settings.periods_per_day), remaining)
        ELSE 0

\* the demands of the pair q are ExpectedDemands(q), numbered from 0
EmitsExpected(q) ==
    /\ Cardinality(DemandsOf(q[1], q[2])) = ExpectedDemands(q)
    /\ {all_sessions[i].session_num : i \in DemandsOf(q[1], q[2])}
          = 0..(ExpectedDemands(q) - 1)

\* C18 as claimed: once the Demand Builder has run, every allocation with
\* hours_per_week > 0 has, for each section, min(hours_per_week,
\* periods_per_day, limit - hours committed to the faculty before) demands
\* numbered 0..n-1 when the faculty has capacity left, and none otherwise.
C18_DemandsPerAllocation ==
    (PassStarted /\ pc # "build") =>
        \A q \in BuilderPairs :
            allocations[q[2]].hours_per_week > 0 => EmitsExpected(q)

\* C18 as amended: the same for every allocation whose subject has an eligible
\* room; with no room at all the allocation is dropped and has no demand.
C18_DemandsPerAllocationWithRoom ==
    (PassStarted /\ pc # "build") =>
        \A q \in BuilderPairs :
            allocations[q[2]].hours_per_week > 0 =>
                IF AvailableRooms(allocations[q[2]].subject) # <<>>
                THEN EmitsExpected(q)
                ELSE DemandsOf(q[1], q[2]) = {}

\* two sections share a faculty whose limit is below the two hours allocated:
\* the first section has its demands cut to the limit, the second has none
C18_Witness ==
    /\ pc = "done"
    /\ PassStarted
    /\ Len(sections) = 2
    /\ allocations[1].hours_per_week = 2
    /\ faculty_limits[1] = 1
    /\ Cardinality(DemandsOf(1, 1)) = 1
    /\ DemandsOf(2, 1) = {}

\* the demands of a faculty
FacultyDemands(f) == {i \in 1..Len(all_sessions) : all_sessions[i].faculty = f}

\* C19: a faculty never has more demands than its limit, so the demand the
\* main loop is about to process never finds its faculty at the limit: the
\* test of line 192 is false for it, and the demands skipped are those left
\* without a slot by the Slot Selector and the Fallback Resolver.
C19_LimitCheckNeverFires ==
    PassStarted =>
        /\ \A f \in FacultyIds : Cardinality(FacultyDemands(f)) <= faculty_limits[f]
        /\ (pc = "loop" /\ session_index <= Len(all_sessions)) =>
              HoursUsed(all_sessions[session_index].faculty)
                  < faculty_limits[all_sessions[session_index].faculty]

\* a faculty has as many demands as its limit allows and the main loop
\* skipped a demand
C19_Witness ==
    /\ pc = "done"
    /\ PassStarted
    /\ skipped_count > 0
    /\ \E f \in FacultyIds :
          /\ Cardinality(FacultyDemands(f)) = faculty_limits[f]
          /\ HoursUsed(f) < faculty_limits[f]

\* the sort key of the claim: hours placed / limit, slots occupied by the
\* section, sequence index + (0 if lab else 5) + 2 x hours placed / limit
ClaimedKey(session) ==
    LET limit == faculty_limits[session.faculty]
        placed == HoursUsed(session.faculty)
    IN  [faculty_load_ratio |-> <<placed, limit>>,
         section_current_load |-> Cardinality(section_schedule[session.section]),
         priority |-> <<(session.session_num
                          + (IF session.is_lab THEN 0 ELSE TheoryBoost)) * limit
                        + 2 * placed, limit>>]

\* the pairs of positions of the queue, the first before the second
QueuePairs == {p \in (1..Len(all_sessions)) \X (1..Len(all_sessions)) : p[1] < p[2]}

\* C20 as claimed: when the main loop starts, the queue is in ascending order
\* of the key of the claim, evaluated as the sort does on the state before any
\* session is placed; demands are out of that order only when their keys are
\* equal.
C20_QueueInClaimedOrder ==
    (pc = "loop" /\ session_index = 1) =>
        \A p \in QueuePairs :
            ~KeyLess(ClaimedKey(all_sessions[p[2]]), ClaimedKey(all_sessions[p[1]]))

\* the demands the builder had committed to the faculty of a demand when it
\* emitted it, the demands of its own allocation included
CommittedLoad(session) ==
    LET q == <<session.section, session.allocation_id>>
    IN  EmittedBefore(q) + Cardinality(DemandsOf(q[1], q[2]))

\* C20 as amended: the queue is processed in ascending order of priority =
\* sequence index + (0 if lab else 5) + 2 x (demands committed to the faculty
\* by the Demand Builder / limit); the two load components of the key are 0
\* for every demand when the sort runs; the random value orders only demands
\* of equal priority.
C20_QueueInPriorityOrder ==
    (PassStarted /\ pc \in {"loop", "done"}) =>
        /\ \A p \in QueuePairs :
              ~RatLess(all_sessions[p[2]].priority, all_sessions[p[1]].priority)
        /\ \A i \in 1..Len(all_sessions) :
              RatEq(all_sessions[i].priority,
                    <<(all_sessions[i].session_num
                         + (IF all_sessions[i].is_lab THEN 0 ELSE TheoryBoost))
                          * faculty_limits[all_sessions[i].faculty]
                        + 2 * CommittedLoad(all_sessions[i]),
                      faculty_limits[all_sessions[i].faculty]>>)
        /\ (pc = "loop" /\ session_index = 1) =>
              \A i \in 1..Len(all_sessions) :
                  /\ session_sort_key(all_sessions[i]).faculty_load_ratio[1] = 0
                  /\ session_sort_key(all_sessions[i]).section_current_load = 0

\* a queue of four demands, two pairs of equal priority: the first pair was
\* put by the random value in the reverse of the order of emission
C20_Witness ==
    /\ pc = "loop"
    /\ session_index = 1
    /\ Len(all_sessions) = 4
    /\ RatEq(all_sessions[1].priority, all_sessions[2].priority)
    /\ RatLess(all_sessions[2].priority, all_sessions[3].priority)
    /\ all_sessions[1].faculty = 2
    /\ all_sessions[2].faculty = 1

\* C12 as claimed: a second pass on the same catalog returns what the first
\* returned: the same rows in the same order and the same statistics.
C12_RerunIdentical ==
    (pc = "done" /\ first_run # <<>>) =>
        /\ outcome = first_run[1].outcome
        /\ result = first_run[1].timetable
        /\ scheduled_count = first_run[1].scheduled
        /\ skipped_count = first_run[1].skipped
        /\ Len(all_sessions) = first_run[1].total_sessions_needed

\* C15 as claimed: when the request is answered with an error, the sessions,
\* the slots and the semesters stored are those found when it arrived.
C15_ErrorLeavesPreviousState ==
    (request.phase = "responded" /\ request.status # 200) =>
        /\ stored = request.before.stored
        /\ slots = request.before.slots
        /\ semesters = request.before.semesters

\* the pairs of positions of the demand queue, the earlier first
ProcessingPairs ==
    {p \in (1..Len(all_sessions)) \X (1..Len(all_sessions)) : p[1] < p[2]}

\* C21 as claimed: once the queue is sorted, the demands of one allocation for
\* one section stand in increasing session_num, and no theory demand stands
\* before a lab demand.
C21_LabsFirstRepeatsLater ==
    pc \in {"loop", "done"} =>
        \A p \in ProcessingPairs :
            LET early == all_sessions[p[1]]
                late == all_sessions[p[2]]
            IN  /\ (early.allocation_id = late.allocation_id /\ early.section = late.section)
                       => early.session_num < late.session_num
                /\ ~(~early.is_lab /\ late.is_lab)

\* the sessions already placed on a day, all sections together
PlacedOnDay(day) == Cardinality({i \in 1..Len(result) : result[i].day = day})

\* the integer score of a day as stated: 10 x the sessions of the section and
\* subject on the day + 3 x the sessions of the section on the day + the
\* sessions placed on the day in all sections
StatedDayScore(session, day) ==
    10 * subject_day_count[session.section][session.subject][day]
    + 3 * section_day_count[session.section][day]
    + PlacedOnDay(day)

\* C22 as claimed: for the demand about to be processed and every working
\* day, the integer part of the day score is the stated score; and the days
\* are tried in ascending order of it: the day of a slot the Slot Selector
\* accepts has the least stated score among the days that had a slot passing
\* the filters.
C22_DaysRankedByStatedScore ==
    /\ [](pc = "loop" /\ session_index <= Len(all_sessions) =>
            \A day \in Days :
                DayScore(all_sessions[session_index], day)
                    = StatedDayScore(all_sessions[session_index], day))
    /\ [][(pc = "loop" /\ Len(placed_by') > Len(placed_by)
             /\ placed_by'[Len(placed_by')] = "selector") =>
            LET session == all_sessions[session_index]
                d == result'[Len(result')].day
            IN  \A e \in Days :
                    (\E s \in SlotIds : slots[s].day = e /\ SlotSuitable(session, s))
                        => StatedDayScore(session, e) >= StatedDayScore(session, d)]_vars

\* twice the distance of the period of a slot to periods_per_day / 2
TwiceMiddleDistance(slot) ==
    Abs(2 * slots[slot].period_number - settings.periods_per_day)

\* C23 as claimed: a period that has been tried is never strictly farther
\* from periods_per_day / 2 than a period of the day not tried before it.
C23_CloserPeriodsFirst ==
    \A i \in 1..probe.tried : \A j \in (i + 1)..Len(probe.slot_attempts) :
        TwiceMiddleDistance(probe.slot_attempts[i])
            <= TwiceMiddleDistance(probe.slot_attempts[j])

\* the step commits the demand at session_index through the Slot Selector
SelectorCommits ==
    /\ pc = "loop"
    /\ Len(placed_by') = Len(placed_by) + 1
    /\ placed_by'[Len(placed_by')] = "selector"

\* the eligible rooms of a demand that are free at a slot
FreeEligibleRooms(session, slot) ==
    {session.available_rooms[i] : i \in 1..Len(session.available_rooms)}
        \cap {r \in RoomIds : slot \notin room_schedule[r]}

\* the five filters on a slot: faculty free, section free, an eligible room
\* free, consecutive-session cap, per-day section cap
PassesFilters(session, slot) ==
    /\ slot \notin faculty_schedule[session.faculty]
    /\ slot \notin section_schedule[session.section]
    /\ FreeEligibleRooms(session, slot) # {}
    /\ ConsecutiveCount(session, slot) < ConsecutiveLimit(session)
    /\ section_day_count[session.section][slots[slot].day] < MaxSessionsPerDay

\* the key of line 238 for a slot
MiddleDistance(slot) == Abs(slots[slot].period_number - (settings.periods_per_day \div 2))

\* C24: a slot the Slot Selector accepts passes the five filters; no slot that
\* passes them lies on a day of lower score, or on the same day at a lower
\* middle distance, or on the same day at the same distance in an earlier
\* period; the room taken is an eligible room free at the slot, and no
\* eligible room free at the slot has a smaller occupancy count.
C24_FirstFitInSearchOrder ==
    [][SelectorCommits =>
        LET session == all_sessions[session_index]
            slot == stored'[Len(stored')].slot
            room == stored'[Len(stored')].room
        IN  /\ PassesFilters(session, slot)
            /\ \A t \in SlotIds :
                  PassesFilters(session, t) =>
                      /\ DayScore(session, slots[t].day) >= DayScore(session, slots[slot].day)
                      /\ slots[t].day = slots[slot].day =>
                            /\ MiddleDistance(t) >= MiddleDistance(slot)
                            /\ MiddleDistance(t) = MiddleDistance(slot) => t >= slot
            /\ room \in FreeEligibleRooms(session, slot)
            /\ \A r \in FreeEligibleRooms(session, slot) :
                  Cardinality(room_schedule[room]) <= Cardinality(room_schedule[r])]_vars

\* a session accepted by the Slot Selector on a day and in a room that already
\* held a session of its section, with a second room in the catalog
C24_Witness ==
    \E i \in 2..Len(result) : \E j \in 1..(i - 1) :
        /\ placed_by[i] = "selector"
        /\ result[j].day = result[i].day
        /\ result[j].section = result[i].section
        /\ Len(rooms) > 1

\* the rows emitted before row i for the same section and subject on the same
\* day, in another period at most lim periods away
NearbyEarlierRows(i, lim) ==
    {j \in 1..(i - 1) :
        /\ result[j].section = result[i].section
        /\ result[j].subject = result[i].subject
        /\ result[j].day = result[i].day
        /\ result[j].period # result[i].period
        /\ Abs(result[j].period - result[i].period) <= lim}

RowLimit(i) == IF result[i].is_lab THEN LabConsecutiveLimit ELSE TheoryConsecutiveLimit

EarlierRowsOfDay(i) ==
    {j \in 1..(i - 1) :
        result[j].section = result[i].section /\ result[j].day = result[i].day}

\* the rows of a section on a day
RowsOfDay(sec, day) ==
    {i \in 1..Len(result) : result[i].section = sec /\ result[i].day = day}

\* C26: a session the Slot Selector accepted found fewer than
\* min(4, periods_per_day / 2 + 1) sessions of its section on its day; a
\* section has more sessions than that on a day only when the Fallback
\* Resolver placed one of them there; and never more than periods_per_day.
C26_DayCapOnlyRelaxedByFallback ==
    /\ \A i \in 1..Len(result) :
          placed_by[i] = "selector" =>
              Cardinality(EarlierRowsOfDay(i)) < MaxSessionsPerDay
    /\ \A sec \in SectionIds : \A day \in Days :
          /\ section_day_count[sec][day] = Cardinality(RowsOfDay(sec, day))
          /\ section_day_count[sec][day] > MaxSessionsPerDay =>
                \E i \in RowsOfDay(sec, day) : placed_by[i] = "fallback"
          /\ section_day_count[sec][day] <= settings.periods_per_day

\* a section with more sessions on a day than the cap of the Slot Selector,
\* the day being full
C26_Witness ==
    \E sec \in SectionIds : \E day \in Days :
        /\ section_day_count[sec][day] > MaxSessionsPerDay
        /\ section_day_count[sec][day] = settings.periods_per_day

\* the faculty, the section and an eligible room of a demand are free at a slot
HardFree(session, slot) ==
    /\ slot \notin faculty_schedule[session.faculty]
    /\ slot \notin section_schedule[session.section]
    /\ FreeEligibleRooms(session, slot) # {}

\* slot t comes before slot s in (day, period) order
NaturallyBefore(t, s) ==
    \/ slots[t].day < slots[s].day
    \/ slots[t].day = slots[s].day /\ slots[t].period_number < slots[s].period_number

\* the step commits the demand at session_index through the Fallback Resolver
FallbackCommits ==
    /\ pc = "loop"
    /\ Len(placed_by') = Len(placed_by) + 1
    /\ placed_by'[Len(placed_by')] = "fallback"

\* the step records the demand at session_index as unscheduled
DemandSkipped ==
    /\ pc = "loop"
    /\ skipped_count' = skipped_count + 1

\* C27: when the Fallback Resolver places a demand, no slot passed the filters
\* of the Slot Selector, the slot taken has the faculty, the section and an
\* eligible room free, and no slot before it in (day, period) order has; when
\* a demand is recorded as unscheduled, no slot of the grid has the three free.
C27_FallbackFirstFreeSlot ==
    [][LET session == all_sessions[session_index]
       IN  /\ FallbackCommits =>
                 /\ \A t \in SlotIds : ~PassesFilters(session, t)
                 /\ HardFree(session, stored'[Len(stored')].slot)
                 /\ stored'[Len(stored')].room
                        \in FreeEligibleRooms(session, stored'[Len(stored')].slot)
                 /\ \A t \in SlotIds :
                        NaturallyBefore(t, stored'[Len(stored')].slot)
                            => ~HardFree(session, t)
           /\ DemandSkipped => \A t \in SlotIds : ~HardFree(session, t)]_vars

\* a pass in which the Fallback Resolver placed a session in a slot that is
\* not the first of the grid and a later demand was recorded as unscheduled
C27_Witness ==
    /\ skipped_count > 0
    /\ \E i \in 1..Len(result) :
          placed_by[i] = "fallback" /\ (result[i].day > 1 \/ result[i].period > 1)

\* the output rows of a section
SectionRows(sec) == {i \in 1..Len(result) : result[i].section = sec}

\* C28: once the main loop runs, for each faculty the hours used, the size of
\* its occupied-slot set and the number of its output rows are equal; for each
\* section the size of its occupied-slot set, the sum of its per-day counters
\* and the number of its output rows are equal; each per-day counter is the
\* sum of the (section, subject, day) counters; and scheduled_count is the
\* number of output rows and of stored sessions.
C28_TrackingAgreesWithOutput ==
    (pc = "loop" \/ Len(result) > 0) =>
        /\ \A f \in FacultyIds :
              /\ HoursUsed(f) = Cardinality(faculty_schedule[f])
              /\ HoursUsed(f) = Cardinality(FacultyRows(f))
        /\ \A sec \in SectionIds :
              /\ Cardinality(section_schedule[sec]) = SumOver(Days, section_day_count[sec])
              /\ Cardinality(section_schedule[sec]) = Cardinality(SectionRows(sec))
              /\ \A day \in Days :
                    section_day_count[sec][day]
                        = SumOver(SubjectIds,
                                  [j \in SubjectIds |-> subject_day_count[sec][j][day]])
        /\ scheduled_count = Len(result)
        /\ scheduled_count = Len(stored)

\* three sessions committed, two of them of different subjects for one
\* section on one day, given by different faculties
C28_Witness ==
    /\ scheduled_count >= 3
    /\ \E i, j \in 1..Len(result) :
          /\ result[i].section = result[j].section
          /\ result[i].day = result[j].day
          /\ result[i].subject # result[j].subject
          /\ result[i].faculty # result[j].faculty

\* C29: a step that records a demand as unscheduled leaves the occupancy sets,
\* the counters, the stored sessions, the output list and scheduled_count as
\* they are; the tracking state changes only in a step that commits a session;
\* and in every step each occupancy set keeps its slots and no counter
\* decreases.
C29_StateChangesOnlyOnCommit ==
    [][/\ DemandSkipped => UNCHANGED <<tracking, stored, result, scheduled_count>>
       /\ tracking' # tracking =>
             /\ pc = "loop"
             /\ Len(result') = Len(result) + 1
             /\ scheduled_count' = scheduled_count + 1
             /\ skipped_count' = skipped_count
       /\ \A f \in FacultyIds :
             /\ faculty_schedule[f] \subseteq faculty_schedule'[f]
             /\ f \in DOMAIN faculty_hours_used =>
                   /\ f \in DOMAIN faculty_hours_used'
                   /\ faculty_hours_used[f] <= faculty_hours_used'[f]
       /\ \A r \in RoomIds : room_schedule[r] \subseteq room_schedule'[r]
       /\ \A sec \in SectionIds :
             /\ section_schedule[sec] \subseteq section_schedule'[sec]
             /\ \A day \in Days :
                   /\ section_day_count[sec][day] <= section_day_count'[sec][day]
                   /\ \A j \in SubjectIds :
                         subject_day_count[sec][j][day] <= subject_day_count'[sec][j][day]
       /\ scheduled_count <= scheduled_count'
       /\ skipped_count <= skipped_count']_vars

\* a demand was recorded as unscheduled in a pass that has committed sessions
C29_Witness ==
    /\ skipped_count > 0
    /\ scheduled_count >= 2
    /\ pc = "loop"

\* the rooms whose type is the one a subject requires
MatchingRooms(j) == {r \in RoomIds : rooms[r].is_lab = subjects[j].lab_required}

\* the eligible rooms of a subject: the rooms of its type, or every room when
\* there is none of its type
EligibleRooms(j) == IF MatchingRooms(j) # {} THEN MatchingRooms(j) ELSE RoomIds

====
